---- MODULE Spec2Model ----
(***************************************************************************)
(* Typing layer of cudf's masked-scalar UDF support                        *)
(* (python/cudf/cudf/core/udf/typing.py).                                  *)
(*                                                                         *)
(* A type is a record.  `cls` is the Python class of the type object,      *)
(* `name` is the string numba's Type.__init__ is given (str() and repr()   *)
(* of a type return it, and numba's default Type.__eq__ compares class and *)
(* name).  A MaskedType also has the attribute `value_type`.               *)
(*                                                                         *)
(* The state is one typing request and its answer: numba asks a template   *)
(* registered under `key` to type the operand list `args`; the answer is   *)
(* `result`.  The type an answer yields can be the operand of the next     *)
(* request, as when an expression tree is typed bottom-up.                 *)
(***************************************************************************)
EXTENDS Integers, Sequences, FiniteSets, TLC

VARIABLES key, args, template, result, steps

\* The option store of options.py: _OPTIONS, the last call made on it, and
\* for each name the value of the last set_option that did not raise (ever,
\* and since the name was last registered).
VARIABLES OPTIONS, call, sets

typing_vars == <<key, args, template, result, steps>>

option_vars == <<OPTIONS, call, sets>>

vars == <<key, args, template, result, steps, OPTIONS, call, sets>>

\* How many times the type produced by one request is fed to another one.
MaxSteps == 1

\* Option values are 0..MaxValue.
MaxValue == 2

----------------------------------------------------------------------------
(* numba's types, as far as typing.py looks at them                        *)

\* Python's None: what a template returns to decline, what unify returns
\* when there is no common type.
None == [cls |-> "NoneValue", name |-> "None"]

int32 == [cls |-> "Integer", name |-> "int32"]
int64 == [cls |-> "Integer", name |-> "int64"]
float64 == [cls |-> "Float", name |-> "float64"]
boolean == [cls |-> "Boolean", name |-> "bool"]
NPDatetime_ns == [cls |-> "NPDatetime", name |-> "datetime64[ns]"]
NPTimedelta_ns == [cls |-> "NPTimedelta", name |-> "timedelta64[ns]"]
pyobject == [cls |-> "PyObject", name |-> "pyobject"]
\* a numba type outside SUPPORTED_NUMBA_TYPES (the type of a Python str)
unicode_type == [cls |-> "UnicodeType", name |-> "unicode_type"]

string_view == [cls |-> "StringView", name |-> "string_view"]
dstring == [cls |-> "DString", name |-> "dstring"]

\* types.Poison(msg): its name carries the message, so two poisons made
\* by MaskedType.__init__ are equal types.
Poison == [cls |-> "Poison", name |-> "Poison<Unsupported MaskedType>"]

\* The classes a type's class derives from (isinstance looks at these).
Bases(cls) ==
    CASE cls = "Integer" -> {"Integer", "Number"}
      [] cls = "Float" -> {"Float", "Number"}
      [] OTHER -> {cls}

isinstance(t, classes) == Bases(t.cls) \cap classes # {}

SUPPORTED_NUMBA_TYPES == {"Number", "Boolean", "NPDatetime", "NPTimedelta", "PyObject"}

\* numba's Type.__eq__: same class and same key (the name).
Type__eq__(a, b) == a.cls = b.cls /\ a.name = b.name

----------------------------------------------------------------------------
(* MaskedType                                                              *)

\* MaskedType.__init__ with only types.Number tested in the second branch.
MaskedType__init__NumbersOnly(value) ==
    IF isinstance(value, {"PyObject", "StringView", "DString"}) THEN dstring
    ELSE IF isinstance(value, {"Number"}) THEN value
    ELSE Poison

\* MaskedType.__init__ without StringView in the first branch.
MaskedType__init__NoStringView(value) ==
    IF isinstance(value, {"PyObject", "DString"}) THEN dstring
    ELSE IF isinstance(value, SUPPORTED_NUMBA_TYPES) THEN value
    ELSE Poison

MaskedType__init__value_type(value) ==
    IF isinstance(value, {"PyObject", "StringView", "DString"}) THEN dstring
    ELSE IF isinstance(value, SUPPORTED_NUMBA_TYPES) THEN value
    ELSE Poison

MaskedType(value) ==
    LET vt == MaskedType__init__value_type(value)
    IN  [cls |-> "MaskedType", name |-> "Masked(" \o vt.name \o ")", value_type |-> vt]

na_type == [cls |-> "NAType", name |-> "NA"]

\* MaskedType.__eq__ without the isinstance test: a non-masked type is
\* compared with the value_type.
MaskedType__eq__NoClassTest(self, other) ==
    IF ~isinstance(other, {"MaskedType"}) THEN Type__eq__(self.value_type, other)
    ELSE Type__eq__(self.value_type, other.value_type)

\* MaskedType.__eq__(self, other)
MaskedType__eq__(self, other) ==
    IF ~isinstance(other, {"MaskedType"}) THEN FALSE
    ELSE Type__eq__(self.value_type, other.value_type)

\* MaskedType.__hash__(self): the hash of the repr, which is the name.  The
\* hash of a string is a function of its characters alone, so it is kept as
\* the hashed string.
MaskedType__hash__(self) == <<"hash", self.name>>

\* `a == b` in Python: the __eq__ of a's class.
py_eq(a, b) ==
    IF a.cls = "MaskedType" THEN MaskedType__eq__(a, b) ELSE Type__eq__(a, b)

----------------------------------------------------------------------------
(* Unification                                                             *)

\* numpy.promote_types on the number types of the model.
Rank(t) == CASE t.name = "int32" -> 1 [] t.name = "int64" -> 2 [] OTHER -> 3

promote_types(a, b) == IF Rank(a) >= Rank(b) THEN a ELSE b

\* numba's Number.unify
Number_unify(self, other) ==
    IF isinstance(other, {"Number"}) THEN promote_types(self, other) ELSE None

\* numba's can_convert(fromty, toty) at Conversion.safe or better, for two
\* different types: a boolean converts safely to every number type, an
\* integer to a wider number type (Number.unify answers those first).
can_convert_safe(fromty, toty) ==
    \/ isinstance(fromty, {"Boolean"}) /\ isinstance(toty, {"Number"})
    \/ isinstance(fromty, {"Number"}) /\ isinstance(toty, {"Number"})
       /\ Rank(fromty) < Rank(toty)

RECURSIVE unify_pairs(_, _)

MaskedType_unify(self, other) ==
    IF isinstance(other, {"NAType"}) THEN self
    ELSE IF isinstance(other, {"MaskedType"})
         THEN MaskedType(unify_pairs(self.value_type, other.value_type))
    ELSE LET unified == unify_pairs(self.value_type, other)
         IN  IF unified = None THEN None ELSE MaskedType(unified)

\* NAType.unify without the bounce to MaskedType.unify.
NAType_unify_NoBounce(self, other) ==
    IF isinstance(other, {"NAType"}) THEN self ELSE MaskedType(other)

NAType_unify(self, other) ==
    IF isinstance(other, {"MaskedType"}) THEN None
    ELSE IF isinstance(other, {"NAType"}) THEN self
    ELSE MaskedType(other)

\* first.unify(context, second): the method of first's class.  numba's
\* Type.unify, which the other classes of the model inherit, returns None.
Type_unify(self, other) ==
    CASE self.cls = "MaskedType" -> MaskedType_unify(self, other)
      [] self.cls = "NAType" -> NAType_unify(self, other)
      [] isinstance(self, {"Number"}) -> Number_unify(self, other)
      [] OTHER -> None

\* numba's BaseContext.unify_pairs(first, second), the `context.unify_pairs`
\* MaskedType.unify calls and the caller of every unify method.
unify_pairs(first, second) ==
    IF py_eq(first, second) THEN first
    ELSE IF Type_unify(first, second) # None THEN Type_unify(first, second)
    ELSE IF Type_unify(second, first) # None THEN Type_unify(second, first)
    ELSE IF can_convert_safe(first, second) THEN second
    ELSE IF can_convert_safe(second, first) THEN first
    ELSE None

----------------------------------------------------------------------------
(* The operators the rules are registered for, and the result numba's own  *)
(* typing gives them on unmasked operands                                  *)

\* cudf.core.udf._ops: a few of arith_ops, bitwise_ops, comparison_ops and
\* unary_ops. sub is not symmetric in its operands, and_ takes no floats.
arith_ops == {"add", "sub"}
bitwise_ops == {"and_"}
comparison_ops == {"lt"}
unary_ops == {"neg"}
binary_ops == arith_ops \cup bitwise_ops \cup comparison_ops

IsNum(t) == isinstance(t, {"Number", "Boolean"})
IsInt(t) == isinstance(t, {"Integer", "Boolean"})
IsDt(t) == isinstance(t, {"NPDatetime"})
IsTd(t) == isinstance(t, {"NPTimedelta"})

\* numba's integer results are at least as wide as intp.
ArithResult(a, b) ==
    IF isinstance(a, {"Float"}) \/ isinstance(b, {"Float"}) THEN float64 ELSE int64

\* The return type of context.resolve_function_type(op, (a, b), kws), or
\* None when numba finds no signature for the operands.
binary_return_type(op, a, b) ==
    CASE op = "add" ->
            IF IsNum(a) /\ IsNum(b) THEN ArithResult(a, b)
            ELSE IF IsTd(a) /\ IsTd(b) THEN NPTimedelta_ns
            ELSE IF (IsDt(a) /\ IsTd(b)) \/ (IsTd(a) /\ IsDt(b)) THEN NPDatetime_ns
            ELSE None
      [] op = "sub" ->
            IF IsNum(a) /\ IsNum(b) THEN ArithResult(a, b)
            ELSE IF IsTd(a) /\ IsTd(b) THEN NPTimedelta_ns
            ELSE IF IsDt(a) /\ IsTd(b) THEN NPDatetime_ns
            ELSE IF IsDt(a) /\ IsDt(b) THEN NPTimedelta_ns
            ELSE None
      [] op = "and_" ->
            IF isinstance(a, {"Boolean"}) /\ isinstance(b, {"Boolean"}) THEN boolean
            ELSE IF IsInt(a) /\ IsInt(b) THEN int64
            ELSE None
      [] op = "lt" ->
            IF (IsNum(a) /\ IsNum(b)) \/ (IsDt(a) /\ IsDt(b)) \/ (IsTd(a) /\ IsTd(b))
            THEN boolean ELSE None
      [] OTHER -> None

unary_return_type(op, a) ==
    CASE op = "neg" ->
            IF isinstance(a, {"Float"}) THEN a
            ELSE IF IsInt(a) THEN int64
            ELSE IF IsTd(a) THEN a
            ELSE None
      [] OTHER -> None

\* context.resolve_function_type(key, argtys, kws): the signature numba
\* finds, or None.
resolve_function_type(op, argtys) ==
    LET r == IF Len(argtys) = 2 THEN binary_return_type(op, argtys[1], argtys[2])
             ELSE unary_return_type(op, argtys[1])
    IN  IF r = None THEN None ELSE [return_type |-> r, args |-> argtys]

----------------------------------------------------------------------------
(* What a call answers                                                     *)

\* nb_signature(return_type, *args)
nb_signature(return_type, argtys) ==
    [kind |-> "signature", value |-> [return_type |-> return_type, args |-> argtys]]

\* a template that returns None declines
Declines == [kind |-> "None", value |-> None]

\* the call raised the named exception
Raises(exc) == [kind |-> "raise", value |-> exc]

\* a method that returns a type
Returns(t) == IF t = None THEN Declines ELSE [kind |-> "type", value |-> t]

\* `.return_type` of what resolve_function_type returned: an AttributeError
\* when that is None.
WithReturnType(resolved, argtys) ==
    IF resolved = None THEN Raises("AttributeError")
    ELSE nb_signature(MaskedType(resolved.return_type), argtys)

----------------------------------------------------------------------------
(* The typing rules (AbstractTemplate.generic)                             *)

\* MaskedScalarArithOp.generic returning the first operand's type, as the
\* null rule does.
MaskedScalarArithOp_FirstOperand(k, a) ==
    IF isinstance(a[1], {"MaskedType"}) /\ isinstance(a[2], {"MaskedType"})
    THEN IF resolve_function_type(k, <<a[1].value_type, a[2].value_type>>) = None
         THEN Raises("AttributeError")
         ELSE nb_signature(a[1], a)
    ELSE Declines

MaskedScalarArithOp(k, a) ==
    IF isinstance(a[1], {"MaskedType"}) /\ isinstance(a[2], {"MaskedType"})
    THEN WithReturnType(
             resolve_function_type(k, <<a[1].value_type, a[2].value_type>>), a)
    ELSE Declines

MaskedScalarUnaryOp(k, a) ==
    IF Len(a) = 1 /\ isinstance(a[1], {"MaskedType"})
    THEN WithReturnType(resolve_function_type(k, <<a[1].value_type>>), a)
    ELSE Declines

\* MaskedScalarNullOp.generic without the (NA, Masked) branch.
MaskedScalarNullOp_OneOrder(k, a) ==
    IF isinstance(a[1], {"MaskedType"}) /\ isinstance(a[2], {"NAType"})
    THEN nb_signature(a[1], <<a[1], na_type>>)
    ELSE Declines

MaskedScalarNullOp(k, a) ==
    IF isinstance(a[1], {"MaskedType"}) /\ isinstance(a[2], {"NAType"})
    THEN nb_signature(a[1], <<a[1], na_type>>)
    ELSE IF isinstance(a[1], {"NAType"}) /\ isinstance(a[2], {"MaskedType"})
    THEN nb_signature(a[2], <<na_type, a[2]>>)
    ELSE Declines

MaskedScalarScalarOp(k, a) ==
    IF isinstance(a[1], {"MaskedType"}) /\ isinstance(a[2], SUPPORTED_NUMBA_TYPES)
    THEN WithReturnType(resolve_function_type(k, <<a[1].value_type, a[2]>>), a)
    ELSE IF isinstance(a[1], SUPPORTED_NUMBA_TYPES) /\ isinstance(a[2], {"MaskedType"})
    THEN WithReturnType(resolve_function_type(k, <<a[2].value_type, a[1]>>), a)
    ELSE Declines

\* MaskedScalarIsNull.generic without the (NA, Masked) branch.
MaskedScalarIsNull_OneOrder(k, a) ==
    IF isinstance(a[1], {"MaskedType"}) /\ isinstance(a[2], {"NAType"})
    THEN nb_signature(boolean, <<a[1], na_type>>)
    ELSE Declines

MaskedScalarIsNull(k, a) ==
    IF isinstance(a[1], {"MaskedType"}) /\ isinstance(a[2], {"NAType"})
    THEN nb_signature(boolean, <<a[1], na_type>>)
    ELSE IF isinstance(a[2], {"MaskedType"}) /\ isinstance(a[1], {"NAType"})
    THEN nb_signature(boolean, <<na_type, a[2]>>)
    ELSE Declines

\* MaskedScalarTruth.generic with the operand's own type as the parameter.
MaskedScalarTruth_OwnType(k, a) ==
    IF isinstance(a[1], {"MaskedType"})
    THEN nb_signature(boolean, <<a[1]>>)
    ELSE Declines

MaskedScalarTruth(k, a) ==
    IF isinstance(a[1], {"MaskedType"})
    THEN nb_signature(boolean, <<MaskedType(boolean)>>)
    ELSE Declines

\* UnpackReturnToMasked.generic that wraps the string representations too.
UnpackReturnToMasked_Strings(k, a) ==
    IF isinstance(a[1], {"MaskedType"}) THEN nb_signature(a[1], <<a[1]>>)
    ELSE IF isinstance(a[1], SUPPORTED_NUMBA_TYPES \cup {"StringView", "DString"})
    THEN nb_signature(MaskedType(a[1]), <<a[1]>>)
    ELSE Declines

UnpackReturnToMasked(k, a) ==
    IF isinstance(a[1], {"MaskedType"}) THEN nb_signature(a[1], <<a[1]>>)
    ELSE IF isinstance(a[1], SUPPORTED_NUMBA_TYPES)
    THEN nb_signature(MaskedType(a[1]), <<a[1]>>)
    ELSE Declines

MaskedDStringLength(k, a) ==
    IF isinstance(a[1], {"MaskedType"}) /\ isinstance(a[1].value_type, {"DString"})
    THEN nb_signature(MaskedType(int32), <<a[1]>>)
    ELSE Declines

----------------------------------------------------------------------------
(* String methods                                                          *)

\* nb_signature(return_type, *args, recvr=recvr)
nb_signature_recvr(return_type, argtys, recvr) ==
    [kind |-> "signature",
     value |-> [return_type |-> return_type, args |-> argtys, recvr |-> recvr]]

\* The generic of each bound string method; `this` is the receiver type the
\* BoundFunction was made with, a the argument types of the call.
MaskedStringStartsWith(this, a) ==
    nb_signature_recvr(boolean, <<MaskedType(dstring)>>, this)

MaskedStringEndsWith(this, a) ==
    nb_signature_recvr(boolean, <<MaskedType(dstring)>>, this)

MaskedStringFind(this, a) ==
    nb_signature_recvr(int32, <<MaskedType(dstring)>>, this)

MaskedStringRFind(this, a) ==
    nb_signature_recvr(int32, <<MaskedType(dstring)>>, this)

MaskedStringUpper(this, a) ==
    nb_signature_recvr(MaskedType(dstring), <<>>, this)

MaskedStringLower(this, a) ==
    nb_signature_recvr(MaskedType(dstring), <<>>, this)

string_methods == {"startswith", "endswith", "find", "rfind", "upper", "lower"}

\* MaskedDStringAttrs, registered for the type MaskedType(dstring): numba
\* looks the receiver type up by equality.  resolve_<attr> returns the
\* BoundFunction of the method's template and MaskedType(dstring); for any
\* other receiver type nothing resolves.
MaskedDStringAttrs(typ, attr) ==
    IF py_eq(MaskedType(dstring), typ) /\ attr \in string_methods
    THEN [cls |-> "BoundFunction", name |-> attr, this |-> MaskedType(dstring)]
    ELSE None

----------------------------------------------------------------------------
(* Construction of masked types outside the rules                          *)

\* typeof_masked(val, c): val.value has the type v
typeof_masked(v) == MaskedType(v)

\* The value types MaskedConstructor lists a case for.
MaskedConstructor_cases ==
    {int32, int64, float64, NPDatetime_ns, NPTimedelta_ns, boolean,
     pyobject, string_view, dstring}

\* MaskedConstructor, a ConcreteTemplate: the case whose arguments are the
\* operands' types.  No type of the model converts to a listed value type
\* it is not equal to.
MaskedConstructor(k, a) ==
    IF a[1] \in MaskedConstructor_cases /\ a[2] = boolean
    THEN nb_signature(MaskedType(a[1]), <<a[1], boolean>>)
    ELSE Declines

----------------------------------------------------------------------------
(* The option store (options.py)                                           *)

Names == {"a", "b"}

Values == 0..MaxValue

Descriptions == {"an option"}

\* A validator is the set of values it returns on; on any other value it
\* raises.
Validators == {Values, Values \ {0}, {0}}

\* Option(default, value, description, validator)
Option(default, value, description, validator) ==
    [default |-> default, value |-> value,
     description |-> description, validator |-> validator]

\* _OPTIONS = {}
NoOptions == [n \in {} |-> Option(0, 0, "", {})]

\* What a call on the store did: the store afterwards, the exception it
\* raised ("ok" when none), what it returned (<<>> when nothing).
Did(options, outcome, returned) ==
    [OPTIONS |-> options, outcome |-> outcome, returned |-> returned]

_register_option(options, name, default_value, description, validator) ==
    IF default_value \notin validator THEN Did(options, "ValueError", <<>>)
    ELSE Did([n \in DOMAIN options \cup {name} |->
                 IF n = name
                 THEN Option(default_value, default_value, description, validator)
                 ELSE options[n]],
             "ok", <<>>)

get_option(options, name) ==
    IF name \notin DOMAIN options THEN Did(options, "KeyError", <<>>)
    ELSE Did(options, "ok", <<options[name].value>>)

\* set_option assigning the value before it calls the validator.
set_option_AssignFirst(options, name, val) ==
    IF name \notin DOMAIN options THEN Did(options, "KeyError", <<>>)
    ELSE IF val \notin options[name].validator
         THEN Did([options EXCEPT ![name].value = val], "ValueError", <<>>)
    ELSE Did([options EXCEPT ![name].value = val], "ok", <<>>)

set_option(options, name, val) ==
    IF name \notin DOMAIN options THEN Did(options, "KeyError", <<>>)
    ELSE IF val \notin options[name].validator THEN Did(options, "ValueError", <<>>)
    ELSE Did([options EXCEPT ![name].value = val], "ok", <<>>)

NoCall == [op |-> "none", name |-> "", val |-> <<>>, outcome |-> "ok", returned |-> <<>>]

NoSets == [n \in Names |-> [ever |-> <<>>, since_registered |-> <<>>]]

\* No call has been made on the option store.
OptionsInit ==
    /\ OPTIONS = NoOptions
    /\ call = NoCall
    /\ sets = NoSets

Called(op, name, val, did) ==
    /\ OPTIONS' = did.OPTIONS
    /\ call' = [op |-> op, name |-> name, val |-> val,
                outcome |-> did.outcome, returned |-> did.returned]

RegisterOption ==
    \E name \in Names, default_value \in Values, description \in Descriptions,
       validator \in Validators :
        LET did == _register_option(OPTIONS, name, default_value, description, validator)
        IN  /\ Called("_register_option", name, <<default_value>>, did)
            /\ sets' = IF did.outcome = "ok"
                       THEN [sets EXCEPT ![name].since_registered = <<>>]
                       ELSE sets
            /\ UNCHANGED typing_vars

GetOption ==
    \E name \in Names :
        /\ Called("get_option", name, <<>>, get_option(OPTIONS, name))
        /\ UNCHANGED <<sets, typing_vars>>

SetOption ==
    \E name \in Names, val \in Values :
        LET did == set_option(OPTIONS, name, val)
        IN  /\ Called("set_option", name, <<val>>, did)
            /\ sets' = IF did.outcome = "ok"
                       THEN [sets EXCEPT ![name] =
                                [ever |-> <<val>>, since_registered |-> <<val>>]]
                       ELSE sets
            /\ UNCHANGED typing_vars

----------------------------------------------------------------------------
(* The requests                                                            *)

PlainTypes ==
    {int32, int64, float64, boolean, NPDatetime_ns, NPTimedelta_ns,
     pyobject, string_view, dstring, unicode_type}

MaskedTypes == {MaskedType(v) : v \in PlainTypes}

Types == PlainTypes \cup MaskedTypes \cup {na_type}

Pairs(S, T) == {<<x, y>> : x \in S, y \in T}

Keys ==
    binary_ops \cup unary_ops \cup
    {"is_", "truth", "pack_return", "len", "Masked", "typeof",
     "unify", "unify_pairs", "__eq__", "__hash__"} \cup string_methods

\* The operand lists a request under key k can have.
ArgsFor(k) ==
    CASE k \in binary_ops \cup {"is_", "unify_pairs"} -> Pairs(Types, Types)
      [] k \in unary_ops \cup {"truth", "pack_return", "len", "typeof"} ->
            {<<x>> : x \in Types}
      [] k = "Masked" -> Pairs(Types, {boolean})
      [] k = "unify" -> Pairs(MaskedTypes \cup {na_type}, Types)
      [] k \in {"__eq__", "__hash__"} -> Pairs(MaskedTypes, Types)
      [] k \in string_methods ->
            \* the receiver, then the arguments of the call: none or one
            {<<x>> : x \in Types} \cup Pairs(Types, Types)

Pending == [kind |-> "pending", value |-> None]

Init ==
    /\ key \in Keys
    /\ args \in ArgsFor(key)
    /\ template = "pending"
    /\ result = Pending
    /\ steps = 0
    /\ OptionsInit

\* The template tpl, registered under the keys ks, answers the request.
Answer(tpl, ks, answer) ==
    /\ template = "pending"
    /\ key \in ks
    /\ template' = tpl
    /\ result' = answer
    /\ UNCHANGED <<key, args, steps>>
    /\ UNCHANGED option_vars

ArithOp == Answer("MaskedScalarArithOp", binary_ops, MaskedScalarArithOp(key, args))

NullOp == Answer("MaskedScalarNullOp", binary_ops, MaskedScalarNullOp(key, args))

ScalarOp == Answer("MaskedScalarScalarOp", binary_ops, MaskedScalarScalarOp(key, args))

UnaryOp == Answer("MaskedScalarUnaryOp", unary_ops, MaskedScalarUnaryOp(key, args))

IsNull == Answer("MaskedScalarIsNull", {"is_"}, MaskedScalarIsNull(key, args))

Truth == Answer("MaskedScalarTruth", {"truth"}, MaskedScalarTruth(key, args))

PackReturn == Answer("UnpackReturnToMasked", {"pack_return"}, UnpackReturnToMasked(key, args))

DStringLength == Answer("MaskedDStringLength", {"len"}, MaskedDStringLength(key, args))

Construct == Answer("MaskedConstructor", {"Masked"}, MaskedConstructor(key, args))

TypeofMasked == Answer("typeof_masked", {"typeof"}, Returns(typeof_masked(args[1])))

\* args[1].unify(context, args[2]), args[1] a MaskedType
MaskedUnify ==
    /\ key = "unify"
    /\ isinstance(args[1], {"MaskedType"})
    /\ Answer("MaskedType.unify", {"unify"}, Returns(MaskedType_unify(args[1], args[2])))

\* args[1].unify(context, args[2]), args[1] the NAType
NAUnify ==
    /\ key = "unify"
    /\ isinstance(args[1], {"NAType"})
    /\ Answer("NAType.unify", {"unify"}, Returns(NAType_unify(args[1], args[2])))

\* the type inferrer unifies the two types of a variable
UnifyPairs == Answer("unify_pairs", {"unify_pairs"}, Returns(unify_pairs(args[1], args[2])))

\* args[1] == args[2], args[1] a MaskedType
Eq ==
    Answer("MaskedType.__eq__", {"__eq__"},
           [kind |-> "bool", value |-> MaskedType__eq__(args[1], args[2])])

\* hash(args[1]), and hash(args[2]) when it is a MaskedType too
Hash ==
    /\ key = "__hash__"
    /\ isinstance(args[2], {"MaskedType"})
    /\ Answer("MaskedType.__hash__", {"__hash__"},
              [kind |-> "hash",
               value |-> <<MaskedType__hash__(args[1]), MaskedType__hash__(args[2])>>])

\* args[1].<key>(args[2..]): the attribute resolves to a BoundFunction,
\* whose template types the call.
BoundCall(tpl, attr, answer) ==
    /\ key = attr
    /\ MaskedDStringAttrs(args[1], attr) # None
    /\ Answer(tpl, {attr}, answer)

StartsWith ==
    BoundCall("MaskedStringStartsWith", "startswith",
              MaskedStringStartsWith(MaskedDStringAttrs(args[1], key).this, Tail(args)))

EndsWith ==
    BoundCall("MaskedStringEndsWith", "endswith",
              MaskedStringEndsWith(MaskedDStringAttrs(args[1], key).this, Tail(args)))

Find ==
    BoundCall("MaskedStringFind", "find",
              MaskedStringFind(MaskedDStringAttrs(args[1], key).this, Tail(args)))

RFind ==
    BoundCall("MaskedStringRFind", "rfind",
              MaskedStringRFind(MaskedDStringAttrs(args[1], key).this, Tail(args)))

Upper ==
    BoundCall("MaskedStringUpper", "upper",
              MaskedStringUpper(MaskedDStringAttrs(args[1], key).this, Tail(args)))

Lower ==
    BoundCall("MaskedStringLower", "lower",
              MaskedStringLower(MaskedDStringAttrs(args[1], key).this, Tail(args)))

\* args[1].<key>: no attribute template resolves the method on this receiver
NoAttr ==
    /\ key \in string_methods
    /\ MaskedDStringAttrs(args[1], key) = None
    /\ Answer("MaskedDStringAttrs", string_methods, Declines)

\* The type a request produced, when it produced one.
Produced(r) ==
    CASE r.kind = "type" -> {r.value}
      [] r.kind = "signature" -> {r.value.return_type}
      [] OTHER -> {}

\* The type one request produced is an operand of the next request.
Feed ==
    /\ template # "pending"
    /\ steps < MaxSteps
    /\ \E t \in Produced(result), k \in Keys :
          /\ key' = k
          /\ args' \in {a \in ArgsFor(k) : \E i \in 1..Len(a) : a[i] = t}
    /\ template' = "pending"
    /\ result' = Pending
    /\ steps' = steps + 1
    /\ UNCHANGED option_vars

Next ==
    \/ ArithOp
    \/ NullOp
    \/ ScalarOp
    \/ UnaryOp
    \/ IsNull
    \/ Truth
    \/ PackReturn
    \/ DStringLength
    \/ Construct
    \/ TypeofMasked
    \/ MaskedUnify
    \/ NAUnify
    \/ UnifyPairs
    \/ Eq
    \/ Hash
    \/ StartsWith
    \/ EndsWith
    \/ Find
    \/ RFind
    \/ Upper
    \/ Lower
    \/ NoAttr
    \/ Feed

Spec == Init /\ [][Next]_vars

\* The option store on its own: no typing request is made.
InitOptions ==
    /\ key = "none"
    /\ args = <<>>
    /\ template = "pending"
    /\ result = Pending
    /\ steps = 0
    /\ OptionsInit

NextOptions ==
    \/ RegisterOption
    \/ GetOption
    \/ SetOption

SpecOptions == InitOptions /\ [][NextOptions]_vars

----------------------------------------------------------------------------
(* Properties                                                              *)

IsMasked(t) == t.cls = "MaskedType"

IsPoisoned(t) == IsMasked(t) /\ t.value_type.cls = "Poison"

\* The classes of the supported primitive domain: integers, floating
\* point, boolean, instant, duration, dynamic/opaque.
PrimitiveClasses == {"Integer", "Float", "Boolean", "NPDatetime", "NPTimedelta", "PyObject"}

StringClasses == {"StringView", "DString"}

\* The templates that are typing rules.
Rules ==
    {"MaskedScalarArithOp", "MaskedScalarNullOp", "MaskedScalarScalarOp",
     "MaskedScalarUnaryOp", "MaskedScalarIsNull", "MaskedScalarTruth",
     "UnpackReturnToMasked", "MaskedDStringLength"}

\* C1: MaskedType(P).unify(MaskedType(Q)) returns MaskedType(U) when the
\* underlying unification of P and Q yields U, and returns no type at all
\* (never a masked type) when the underlying unification fails.
C1_UnifyMaskedMasked ==
    (template = "MaskedType.unify" /\ IsMasked(args[2])) =>
        LET U == unify_pairs(args[1].value_type, args[2].value_type)
        IN  IF U # None
            THEN result = [kind |-> "type", value |-> MaskedType(U)]
            ELSE result.kind = "None"

\* C2: unifying a masked type with the null sentinel gives that masked type,
\* value_type unchanged, in both operand orders: MaskedType.unify(NA) returns
\* the masked type itself, NAType.unify(masked) declines, and the caller's
\* retry with the operands swapped produces the same masked type.
C2_MaskedAbsorbsNA ==
    /\ (template = "MaskedType.unify" /\ args[2] = na_type) =>
           result = [kind |-> "type", value |-> args[1]]
    /\ (template = "NAType.unify" /\ IsMasked(args[2])) => result.kind = "None"
    /\ (template = "unify_pairs" /\ IsMasked(args[1]) /\ args[2] = na_type) =>
           /\ result = [kind |-> "type", value |-> args[1]]
           /\ result.value.value_type = args[1].value_type
    /\ (template = "unify_pairs" /\ args[1] = na_type /\ IsMasked(args[2])) =>
           /\ result = [kind |-> "type", value |-> args[2]]
           /\ result.value.value_type = args[2].value_type

C2_Witness ==
    /\ template = "unify_pairs"
    /\ args = <<na_type, MaskedType(NPDatetime_ns)>>
    /\ result.kind = "type"
    /\ result.value.value_type = NPDatetime_ns

\* The masked type a construction request made, and the value type it was
\* constructed over.
Constructed ==
    CASE template = "typeof_masked" -> {<<args[1], result.value>>}
      [] template = "MaskedConstructor" /\ result.kind = "signature" ->
            {<<args[1], result.value.return_type>>}
      [] OTHER -> {}

\* C3 as stated: for every kind P of the supported primitive domain, the
\* dynamic/opaque fallback included, MaskedType(P).value_type is P.
C3_RoundTripEveryKind ==
    \A c \in Constructed :
        c[1].cls \in PrimitiveClasses => c[2].value_type = c[1]

\* C3, amended: for every kind P of the supported primitive domain other than
\* the dynamic/opaque fallback, MaskedType(P).value_type is P; over the
\* dynamic/opaque fallback the value_type is OwnedString.
C3_RoundTrip ==
    \A c \in Constructed :
        /\ c[1].cls \in PrimitiveClasses \ {"PyObject"} => c[2].value_type = c[1]
        /\ c[1].cls = "PyObject" => c[2].value_type = dstring

C3_Witness ==
    /\ template = "MaskedConstructor"
    /\ args[1] = NPTimedelta_ns
    /\ <<NPTimedelta_ns, MaskedType(NPTimedelta_ns)>> \in Constructed
    /\ result.value.return_type.value_type = NPTimedelta_ns

\* Every type a request's answer holds.
TypesOf(r) ==
    CASE r.kind = "type" -> {r.value}
      [] r.kind = "signature" ->
            {r.value.return_type} \cup {r.value.args[i] : i \in 1..Len(r.value.args)}
      [] OTHER -> {}

C5_PoisonedNeverTyped ==
    (template \in Rules /\ \E i \in 1..Len(args) : IsPoisoned(args[i])) =>
        result.kind # "signature"

\* C6: two masked types are equal iff their value_types are equal, a masked
\* type is equal to no type that is not a masked type, and equal masked
\* types have the same hash.
C6_EqualityAndHash ==
    /\ template = "MaskedType.__eq__" =>
           /\ result.kind = "bool"
           /\ result.value =
                  (IsMasked(args[2]) /\ args[1].value_type = args[2].value_type)
    /\ (template = "MaskedType.__hash__" /\ MaskedType__eq__(args[1], args[2])) =>
           result.value[1] = result.value[2]

C6_Witness ==
    /\ template = "MaskedType.__eq__"
    /\ args[2] = args[1].value_type
    /\ result.value = FALSE

\* C7: when numba types the operator on the two value types with result R,
\* the masked-with-masked rule returns a signature with result MaskedType(R)
\* and the two masked operands, unchanged, as argument types.
C7_MaskedMaskedResult ==
    (/\ template = "MaskedScalarArithOp"
     /\ IsMasked(args[1]) /\ IsMasked(args[2])
     /\ binary_return_type(key, args[1].value_type, args[2].value_type) # None) =>
        LET R == binary_return_type(key, args[1].value_type, args[2].value_type)
        IN  /\ result.kind = "signature"
            /\ result.value.return_type = MaskedType(R)
            /\ result.value.return_type.value_type = R
            /\ result.value.args = args

C7_Witness ==
    /\ template = "MaskedScalarArithOp"
    /\ key = "sub"
    /\ args = <<MaskedType(NPDatetime_ns), MaskedType(NPDatetime_ns)>>
    /\ result.kind = "signature"
    /\ result.value.return_type = MaskedType(NPTimedelta_ns)

\* C8: for every registered binary operator, typing a masked type M with the
\* null sentinel, in either order, gives a signature whose result is M; the
\* rule declines for every other operand pair.
C8_NullOpKeepsType ==
    template = "MaskedScalarNullOp" =>
        /\ key \in binary_ops
        /\ IF IsMasked(args[1]) /\ args[2] = na_type
           THEN result.kind = "signature" /\ result.value.return_type = args[1]
           ELSE IF args[1] = na_type /\ IsMasked(args[2])
           THEN result.kind = "signature" /\ result.value.return_type = args[2]
           ELSE result.kind = "None"

C8_Witness ==
    /\ template = "MaskedScalarNullOp"
    /\ key = "lt"
    /\ args = <<na_type, MaskedType(float64)>>
    /\ result.kind = "signature"
    /\ result.value.return_type = MaskedType(float64)

\* The operand value types a rule hands to numba, when the operands are a
\* combination the rule handles.
Handled ==
    CASE template = "MaskedScalarArithOp" /\ IsMasked(args[1]) /\ IsMasked(args[2]) ->
            {<<args[1].value_type, args[2].value_type>>}
      [] template = "MaskedScalarScalarOp" /\ IsMasked(args[1])
            /\ args[2].cls \in PrimitiveClasses ->
            {<<args[1].value_type, args[2]>>}
      [] template = "MaskedScalarScalarOp" /\ IsMasked(args[2])
            /\ args[1].cls \in PrimitiveClasses ->
            {<<args[2].value_type, args[1]>>}
      [] template = "MaskedScalarUnaryOp" /\ IsMasked(args[1]) ->
            {<<args[1].value_type>>}
      [] OTHER -> {}

\* C9: a typing rule never raises; it declines (returns no signature) when
\* its operands are a handled combination whose value types numba gives no
\* result for.
C9_RulesDeclineQuietly ==
    template \in Rules =>
        /\ result.kind # "raise"
        /\ \A vts \in Handled :
               resolve_function_type(key, vts) = None => result.kind = "None"

\* C10 as stated: the truthiness rule yields a signature only for
\* MaskedType(boolean), with a plain boolean result, and declines for every
\* other operand.
C10_TruthOnlyMaskedBoolean ==
    template = "MaskedScalarTruth" =>
        IF args[1] = MaskedType(boolean)
        THEN result.kind = "signature" /\ result.value.return_type = boolean
        ELSE result.kind = "None"

\* C10, amended: the truthiness rule yields a signature for a masked operand
\* of any value type; the result is a plain boolean and the one parameter is
\* MaskedType(boolean) whatever the operand's value type; for a non-masked
\* operand the rule declines.
C10_TruthAnyMasked ==
    template = "MaskedScalarTruth" =>
        IF IsMasked(args[1])
        THEN /\ result.kind = "signature"
             /\ result.value.return_type = boolean
             /\ result.value.args = <<MaskedType(boolean)>>
        ELSE result.kind = "None"

C10_Witness ==
    /\ template = "MaskedScalarTruth"
    /\ args = <<MaskedType(int64)>>
    /\ result.kind = "signature"
    /\ result.value.return_type = boolean

\* The templates of the bound string methods, and how many arguments each
\* method takes.
StringTemplates ==
    {"MaskedStringStartsWith", "MaskedStringEndsWith", "MaskedStringFind",
     "MaskedStringRFind", "MaskedStringUpper", "MaskedStringLower"}

TakesArgs(k) == IF k \in {"upper", "lower"} THEN 0 ELSE 1

\* C11: a bound string method on a MaskedType(OwnedString) receiver is given
\* a signature only when the call supplies the arguments the method takes
\* and each of them is MaskedType(OwnedString); the result is then boolean
\* for startswith/endswith, int32 for find/rfind and MaskedType(OwnedString)
\* for upper/lower.
C11_StringMethodArguments ==
    template \in StringTemplates =>
        LET supplied == Tail(args)
            fits == /\ Len(supplied) = TakesArgs(key)
                    /\ \A i \in 1..Len(supplied) : supplied[i] = MaskedType(dstring)
        IN  /\ result.kind = "signature" => fits
            /\ result.kind = "signature" =>
                   result.value.return_type =
                       CASE key \in {"startswith", "endswith"} -> boolean
                         [] key \in {"find", "rfind"} -> int32
                         [] OTHER -> MaskedType(dstring)

C13_IsNull ==
    template = "MaskedScalarIsNull" =>
        IF \/ IsMasked(args[1]) /\ args[2] = na_type
           \/ args[1] = na_type /\ IsMasked(args[2])
        THEN /\ result.kind = "signature"
             /\ result.value.return_type = boolean
             /\ ~IsMasked(result.value.return_type)
        ELSE result.kind = "None"

C13_Witness ==
    /\ template = "MaskedScalarIsNull"
    /\ args = <<na_type, MaskedType(dstring)>>
    /\ result.kind = "signature"
    /\ result.value.return_type = boolean

\* C15: the masked-with-scalar rule resolves the result on the operands in
\* the order they are written: MaskedType(T) op S gives MaskedType(R), R
\* numba's result of op on (T, S); S op MaskedType(T) gives MaskedType(R'),
\* R' numba's result of op on (S, T), and is typed exactly when S op T is.
C15_ScalarOperandOrder ==
    template = "MaskedScalarScalarOp" =>
        /\ (IsMasked(args[1]) /\ args[2].cls \in PrimitiveClasses) =>
               LET R == binary_return_type(key, args[1].value_type, args[2])
               IN  R # None =>
                       /\ result.kind = "signature"
                       /\ result.value.return_type = MaskedType(R)
        /\ (args[1].cls \in PrimitiveClasses /\ IsMasked(args[2])) =>
               LET R == binary_return_type(key, args[1], args[2].value_type)
               IN  IF R # None
                   THEN /\ result.kind = "signature"
                        /\ result.value.return_type = MaskedType(R)
                   ELSE result.kind # "signature"

\* C14, third part as stated: get_option(name) returns the value of the
\* most recent set_option(name, v) that did not raise, or the registered
\* default when there has been none.
C14_GetReturnsLastSetEver ==
    (call.op = "get_option" /\ call.outcome = "ok") =>
        call.returned =
            IF sets[call.name].ever # <<>> THEN sets[call.name].ever
            ELSE <<OPTIONS[call.name].default>>

\* A call that raised left _OPTIONS as it was: no value or default changed
\* and nothing was registered.
RaisingCallChangesNothing == call'.outcome # "ok" => OPTIONS' = OPTIONS

\* get_option returns the value of the most recent set_option that did not
\* raise since the name was last registered, or that registration's default.
GetReturnsLastSetSinceRegistered ==
    (call.op = "get_option" /\ call.outcome = "ok") =>
        call.returned =
            IF sets[call.name].since_registered # <<>>
            THEN sets[call.name].since_registered
            ELSE <<OPTIONS[call.name].default>>

\* set_option raises KeyError for an unregistered name and ValueError for a
\* value the validator rejects; _register_option raises ValueError for a
\* default its validator rejects.
RaisesAsDocumented ==
    /\ call.op = "set_option" =>
           call.outcome =
               IF call.name \notin DOMAIN OPTIONS THEN "KeyError"
               ELSE IF call.val[1] \notin OPTIONS[call.name].validator THEN "ValueError"
               ELSE "ok"
    /\ (call.op = "_register_option" /\ call.outcome # "ok") =>
           call.outcome = "ValueError"

\* C14, amended: a set_option or _register_option call that raises changes
\* no option's value or default and registers nothing, and get_option(name)
\* returns the value of the most recent set_option(name, v) that did not
\* raise since name's most recent registration, or the default of that
\* registration when there has been none.
C14_OptionStore ==
    /\ [][RaisingCallChangesNothing]_vars
    /\ []GetReturnsLastSetSinceRegistered
    /\ []RaisesAsDocumented

C14_Witness ==
    /\ call.op = "set_option"
    /\ call.outcome = "ValueError"
    /\ sets[call.name].since_registered # <<>>
    /\ OPTIONS[call.name].value = sets[call.name].since_registered[1]
    /\ OPTIONS[call.name].value # call.val[1]

====
